---- MODULE Spec2Model ----
(***************************************************************************)
(* The tool-calling orchestration loop of the travel agent                 *)
(* (src/agents/agent.py) driven by the Streamlit chat handler              *)
(* (src/app.py).  One conversation thread, one graph.invoke in flight at a *)
(* time.  A step of the model is one node of the compiled StateGraph; the  *)
(* checkpointer's committed state is (messages, next).                     *)
(***************************************************************************)
EXTENDS Integers, Sequences, FiniteSets, TLC

VARIABLES
  session,      \* st.session_state.messages (app.py:11-12)
  messages,     \* AgentState["messages"] of the thread's checkpoint
  next,         \* node the checkpoint will run next ("none": no checkpoint)
  running,      \* a graph.invoke call is in flight
  caller,       \* who issued the invoke in flight: "app" | "resume"
  outcome,      \* how the last graph.invoke ended
  turns,        \* user turns submitted through the chat handler
  llmCalls,     \* call_tools_llm visits so far
  nextId,       \* next fresh tool-call identifier
  resumes,      \* resume signals (graph.invoke(None, config)) received
  gateResumes,  \* resume signals received while paused before email_sender
  visit,        \* what the last call_tools_llm visit did
  toolRun,      \* what the last invoke_tools visit did
  emailCalls,   \* email_llm.invoke calls (agent.py:137)
  payloads,     \* Mail(...) payloads constructed (agent.py:140-145)
  sends,        \* sg.send attempts (agent.py:149)
  lastEmail,    \* what the last email_sender visit did
  tools_llm,    \* the variant self._tools_llm is bound to
  rounds,       \* invoke_tools visits since the last user turn
  call,         \* the last direct call of a tool function or of get_llm
  cache,        \* st.session_state: llm_instance and llm_temperature
  created,      \* model clients constructed so far
  agentLLM,     \* the client bound at Agent construction (self._base_llm)
  steps         \* direct calls made so far

loopVars == <<session, messages, next, running, caller, outcome, turns,
              llmCalls, nextId, resumes, gateResumes, visit, toolRun,
              emailCalls, payloads, sends, lastEmail, tools_llm, rounds>>

toolVars == <<call, cache, created, agentLLM, steps>>

vars == <<loopVars, toolVars>>

(*************************** bounds of the model ***************************)
MaxTurns == 2
MaxModelCalls == 3
MaxCalls == 2
MaxRequests == 2
MaxResumes == 1
MaxSteps == 3

(****************************** message model ******************************)
NoCalls == << >>

HumanMessage(c) ==
  [type |-> "human", content |-> c, tool_calls |-> NoCalls,
   tool_call_id |-> 0, name |-> "-"]

AIMessage(c, calls) ==
  [type |-> "ai", content |-> c, tool_calls |-> calls,
   tool_call_id |-> 0, name |-> "-"]

ToolMessage(id, nm, c) ==
  [type |-> "tool", content |-> c, tool_calls |-> NoCalls,
   tool_call_id |-> id, name |-> nm]

\* A reducer that replaces the channel's value by the update.
AddMessagesReplace(old, update) == update

\* Annotated[list[AnyMessage], operator.add]: a node's update is concatenated
\* to the channel's value.
AddMessages(old, update) == old \o update

Last(s) == s[Len(s)]

(****************************** tool registry ******************************)
TOOLS == {"flights_finder", "hotels_finder", "build_itinerary"}

UnknownTool == "unknown_tool"

ToolNames == TOOLS \cup {UnknownTool}

\* The shape of a request's arguments with respect to the tool's args_schema.
ArgShapes == {"well_formed", "malformed"}

\* flights_finder: its source is not part of the repository snapshot; the
\* tool boundary contract says invoke returns a result-or-error record.
FlightsFinderInvoke(args) ==
  IF args = "malformed" THEN [raised |-> FALSE, value |-> "error_record"]
  ELSE [raised |-> FALSE, value |-> "returned"]

\* @tool(args_schema=...): arguments the schema rejects raise a validation
\* error out of tool.invoke; otherwise the body returns a result or an
\* in-band error record.
SchemaToolInvoke(args) ==
  IF args = "malformed" THEN [raised |-> TRUE, value |-> "validation_error"]
  ELSE [raised |-> FALSE, value |-> "returned"]

ToolInvoke(nm, args) ==
  IF nm = "flights_finder" THEN FlightsFinderInvoke(args)
  ELSE SchemaToolInvoke(args)

InvalidToolName == "Invalid tool name. Please retry."


(******************************* invoke_tools ******************************)
\* self._tools = {t.name: t for t in TOOLS}
SelfTools == TOOLS

\* The for loop of invoke_tools over tool_calls, in order.  `results` is the
\* local list; a fault raised by tool.invoke leaves the loop, and the node,
\* with the local list discarded.  `invoked` records the call identifiers
\* for which a capability was invoked.
RECURSIVE ToolLoop(_, _, _)
ToolLoop(calls, results, invoked) ==
  IF calls = << >>
  THEN [raised |-> FALSE, results |-> results, invoked |-> invoked]
  ELSE LET t == Head(calls) IN
       IF t.name \notin SelfTools
       THEN ToolLoop(Tail(calls),
                     Append(results, ToolMessage(t.id, t.name, InvalidToolName)),
                     invoked)
       ELSE LET r == ToolInvoke(t.name, t.args) IN
            IF r.raised
            THEN [raised |-> TRUE, results |-> << >>,
                  invoked |-> Append(invoked, t.id)]
            ELSE ToolLoop(Tail(calls),
                          Append(results, ToolMessage(t.id, t.name, r.value)),
                          Append(invoked, t.id))

Reverse(s) == [i \in 1..Len(s) |-> s[Len(s) + 1 - i]]

\* invoke_tools with the results list built back to front.
RunInvokeToolsReversed(calls) ==
  LET r == ToolLoop(calls, << >>, << >>) IN
    [raised |-> r.raised, results |-> Reverse(r.results), invoked |-> r.invoked]

RunInvokeTools(calls) == ToolLoop(calls, << >>, << >>)

(****************************** model adapter ******************************)
\* str(e) of a fault of the tool-aware call, reduced to the substrings the
\* classification looks for.  A text containing "does not support tools"
\* contains "tools" and "support".
ErrTexts ==
  {e \in [dnst : BOOLEAN, tools : BOOLEAN, support : BOOLEAN] :
     e.dnst => (e.tools /\ e.support)}

\* A classification that looks for the exact phrase only.
IsCapabilityMismatchExactPhrase(e) == e.dnst

\* A classification with `or` between the two substring tests.
IsCapabilityMismatchLoose(e) == e.dnst \/ e.tools \/ e.support

\* "does not support tools" in err_text or
\*    ("tools" in err_text and "support" in err_text)
IsCapabilityMismatch(e) == e.dnst \/ (e.tools /\ e.support)

\* The requests a tool-aware utterance of n requests may carry, with fresh
\* call identifiers first, first + 1, ...
Requests(first, n) ==
  { [i \in 1..n |-> [id |-> first + i - 1, name |-> f[i][1], args |-> f[i][2]]] :
      f \in [1..n -> ToolNames \X ArgShapes] }

\* exists_action with its two labels exchanged.
exists_actionSwapped(msgs) ==
  IF Len(Last(msgs).tool_calls) = 0 THEN "more_tools" ELSE "email_sender"

\* A router that stops the sub-loop once a tool round has been completed.
exists_actionCapped(msgs) ==
  IF Len(Last(msgs).tool_calls) = 0 THEN "email_sender"
  ELSE IF \E i \in 1..Len(msgs) : msgs[i].type = "tool" THEN "email_sender"
  ELSE "more_tools"

\* Agent.exists_action
exists_action(msgs) ==
  IF Len(Last(msgs).tool_calls) = 0 THEN "email_sender" ELSE "more_tools"

\* The mapping of add_conditional_edges.
EdgeOf(label) ==
  IF label = "more_tools" THEN "invoke_tools" ELSE "email_sender"

\* A graph compiled without interrupt_before.
InterruptBeforeNone == {}

\* builder.compile(..., interrupt_before=["email_sender"])
InterruptBefore == {"email_sender"}

NoErr == [dnst |-> FALSE, tools |-> FALSE, support |-> FALSE]

\* Record of a call_tools_llm visit: whether the tool-aware call faulted and
\* with what text, what became of the base call, whether the node raised, and
\* how many entries it appended.
NoVisit ==
  [n |-> 0, faulted |-> FALSE, err |-> NoErr, base |-> "not_called",
   raised |-> FALSE, appended |-> 0, requests |-> 0, goes |-> "none",
   attempted |-> "none", afterFallback |-> FALSE]

\* Whether a visit degraded to the base variant.
Degraded(v) == v.faulted /\ v.base # "not_called"

\* Record of an invoke_tools visit.
NoToolRun ==
  [n |-> 0, raised |-> FALSE, calls |-> << >>, invoked |-> << >>,
   appended |-> 0, goes |-> "none"]

\* Record of an email_sender visit: how it ended and the text it handed to
\* the email model call.
NoEmail == [n |-> 0, result |-> "none", input |-> 0]

\* self._tools_llm = self._base_llm.bind_tools(TOOLS)
BoundToolsLLM == "tool_aware"

\* A fallback that rebinds self._tools_llm to the base variant.
ToolsLLMSticky(cur) == "base"

\* The except clause of call_tools_llm assigns nothing to self._tools_llm.
ToolsLLMAfterFallback(cur) == cur

\* The requests self._tools_llm can emit: the base variant, bound to no
\* tools, emits none.
MaxCallsOf(variant) == IF variant = "tool_aware" THEN MaxCalls ELSE 0

\* A graph whose new input continues at the checkpoint's pending node.
EntryPointPending == IF next = "none" THEN "call_tools_llm" ELSE next

\* builder.set_entry_point("call_tools_llm")
EntryPoint == "call_tools_llm"

\* An edge from email_sender back to itself.
EmailSenderNextLoop == "email_sender"

\* builder.add_edge("email_sender", END)
EmailSenderNext == "END"


(****************************** hotels_finder ******************************)
\* A date argument as the text the model supplies: a YYYY-MM-DD shaped
\* text with its three numbers, the empty text, or a text of another shape.
DateTexts ==
  [shape : {"ymd"}, y : {2025, 2026}, m : {6, 13}, d : {20, 22, 31}]
    \cup {[shape |-> "empty", y |-> 0, m |-> 0, d |-> 0],
          [shape |-> "other", y |-> 0, m |-> 0, d |-> 0]}

\* Values of date.today().
Todays == {<<2025, 6, 21>>, <<2026, 6, 20>>}

Queries == {"", "Paris"}

DaysInMonth(y, m) ==
  IF m \in {4, 6, 9, 11} THEN 30
  ELSE IF m = 2 THEN (IF y % 4 = 0 /\ (y % 100 # 0 \/ y % 400 = 0) THEN 29 ELSE 28)
  ELSE 31

\* datetime.strptime(text, '%Y-%m-%d').date(): the date, or a fault when the
\* text does not have the shape or names no day of the calendar.
Strptime(t) ==
  IF /\ t.shape = "ymd"
     /\ t.m \in 1..12
     /\ t.d \in 1..DaysInMonth(t.y, t.m)
  THEN [ok |-> TRUE, date |-> <<t.y, t.m, t.d>>]
  ELSE [ok |-> FALSE, date |-> <<0, 0, 0>>]

\* date < date
DateBefore(a, b) ==
  \/ a[1] < b[1]
  \/ a[1] = b[1] /\ a[2] < b[2]
  \/ a[1] = b[1] /\ a[2] = b[2] /\ a[3] < b[3]

\* not text
Falsy(t) == t.shape = "empty"

\* A chronology test that lets equal dates through.
CheckOutTooEarlyStrict(co, ci) == DateBefore(co, ci)

\* co <= ci
CheckOutTooEarly(co, ci) == DateBefore(co, ci) \/ co = ci

SearchOutcomes == {"properties", "fault"}

\* hotels_finder(params): the record it returns and the number of
\* serpapi.search calls it made; `search` is what the external search does
\* if it is reached.
hotels_finder(q, check_in, check_out, today, search) ==
  IF q = "" \/ Falsy(check_in) \/ Falsy(check_out)
  THEN [result |-> "error: missing required parameters", searches |-> 0]
  ELSE LET ci == Strptime(check_in)
           co == Strptime(check_out) IN
       IF ~ci.ok \/ ~co.ok
       THEN [result |-> "error: dates must be in YYYY-MM-DD format",
             searches |-> 0]
       ELSE IF DateBefore(ci.date, today)
       THEN [result |-> "error: check_in_date cannot be in the past",
             searches |-> 0]
       ELSE IF CheckOutTooEarly(co.date, ci.date)
       THEN [result |-> "error: check_out_date must be after check_in_date",
             searches |-> 0]
       ELSE IF search = "fault"
       THEN [result |-> "error: search fault", searches |-> 1]
       ELSE [result |-> "properties", searches |-> 1]

(********************************* get_llm *********************************)
\* Sampling temperatures, in tenths.
DefaultTemperature == 7
EmailTemperature == 1
ItineraryTemperature == 7

Temperatures == {0, 1, 7}

NoInst == [id |-> 0, temperature |-> -1]

\* No "llm_instance" and no "llm_temperature" in st.session_state.
EmptyCache == [has |-> FALSE, inst |-> NoInst, temp |-> -1]

\* What the environment does when a client has to be constructed.
Envs == {"ok", "no_key", "init_fault"}

\* A cache test that does not compare the temperature.
CacheHitAny(c, t) == c.has

\* "llm_instance" in st.session_state and
\*    st.session_state.get("llm_temperature") == temperature
CacheHit(c, t) == c.has /\ c.temp = t

\* get_llm(temperature): whether it raised, the client it returned, the
\* session cache after the call and the number of clients it constructed.
get_llm(c, t, env, newId) ==
  IF CacheHit(c, t)
  THEN [raised |-> FALSE, inst |-> c.inst, cache |-> c, made |-> 0, hit |-> TRUE]
  ELSE IF env # "ok"
  THEN [raised |-> TRUE, inst |-> NoInst, cache |-> c, made |-> 0, hit |-> FALSE]
  ELSE LET llm == [id |-> newId, temperature |-> t] IN
       [raised |-> FALSE, inst |-> llm,
        cache |-> [has |-> TRUE, inst |-> llm, temp |-> t],
        made |-> 1, hit |-> FALSE]

(***************************** build_itinerary *****************************)
DayCounts == -1..2

\* A validation that lets days = 0 through.
DaysInvalidNegative(days) == days < 0

\* params.days < 1
DaysInvalid(days) == days < 1

InvokeOutcomes == {"content", "fault"}

\* build_itinerary(params): what it returns (or that it raised), the session
\* cache after the call, and how many times it obtained and invoked the
\* generation model.
build_itinerary(days, c, env, newId, inv) ==
  IF DaysInvalid(days)
  THEN [raised |-> FALSE, result |-> "Error: days must be >= 1.",
        cache |-> c, made |-> 0, obtained |-> 0, invokes |-> 0]
  ELSE LET g == get_llm(c, ItineraryTemperature, env, newId) IN
       IF g.raised
       THEN [raised |-> TRUE, result |-> "fault", cache |-> g.cache,
             made |-> 0, obtained |-> 1, invokes |-> 0]
       ELSE [raised |-> FALSE,
             result |-> IF inv = "fault" THEN "Error generating itinerary"
                        ELSE "itinerary",
             cache |-> g.cache, made |-> g.made, obtained |-> 1,
             invokes |-> 1]

NoCall == [fn |-> "none"]

ToolInit ==
  /\ call = NoCall
  /\ cache = EmptyCache
  /\ created = 0
  /\ agentLLM = NoInst
  /\ steps = 0

(********************************* the loop ********************************)
LoopInit ==
  /\ session = << >>
  /\ messages = << >>
  /\ next = "none"
  /\ running = FALSE
  /\ caller = "none"
  /\ outcome = "none"
  /\ turns = 0
  /\ llmCalls = 0
  /\ nextId = 1
  /\ resumes = 0
  /\ gateResumes = 0
  /\ visit = NoVisit
  /\ toolRun = NoToolRun
  /\ emailCalls = 0
  /\ payloads = 0
  /\ sends = 0
  /\ lastEmail = NoEmail
  /\ tools_llm = BoundToolsLLM
  /\ rounds = 0

\* A node has finished with the channel value `msgs` and the graph moves to
\* node `n`: the step is checkpointed; if n is in interrupt_before the invoke
\* returns to its caller, otherwise it goes on.  The chat handler, on return,
\* appends result["messages"][-1] to the session list (app.py:48-50).
Advance(msgs, n) ==
  /\ messages' = msgs
  /\ next' = n
  /\ IF n \in InterruptBefore
     THEN /\ running' = FALSE
          /\ outcome' = "interrupted"
          /\ session' = IF caller = "app" THEN Append(session, Last(msgs))
                        ELSE session
     ELSE /\ running' = TRUE
          /\ outcome' = "none"
          /\ session' = session

\* A fault leaves the node: nothing of the step is written, the checkpoint
\* still names the node, and graph.invoke raises to its caller.
Raise ==
  /\ running' = FALSE
  /\ outcome' = "raised"
  /\ UNCHANGED <<messages, next, session>>

\* app.py:37-47: the chat handler appends the user's message to the session
\* list and invokes the graph with the whole list as input on the thread.
UserTurn ==
  /\ ~running
  /\ turns < MaxTurns
  /\ LET s == Append(session, HumanMessage(turns + 1)) IN
       /\ session' = s
       /\ messages' = AddMessages(messages, s)
  /\ next' = EntryPoint
  /\ running' = TRUE
  /\ caller' = "app"
  /\ outcome' = "none"
  /\ turns' = turns + 1
  /\ rounds' = 0
  /\ UNCHANGED <<llmCalls, nextId, resumes, gateResumes, visit, toolRun,
                 emailCalls, payloads, sends, lastEmail, tools_llm>>
  /\ UNCHANGED toolVars

\* call_tools_llm, tool-aware call returns an utterance.
DecideToolAware ==
  /\ running /\ next = "call_tools_llm"
  /\ llmCalls < MaxModelCalls
  /\ \E k \in 0..MaxCallsOf(tools_llm) :
       /\ nextId + k - 1 <= MaxRequests
       /\ nextId' = nextId + k
       /\ \E calls \in Requests(nextId, k) :
            LET msgs == AddMessages(messages, <<AIMessage(llmCalls + 1, calls)>>)
                n == EdgeOf(exists_action(msgs)) IN
              /\ Advance(msgs, n)
              /\ visit' = [n |-> llmCalls + 1, faulted |-> FALSE, err |-> NoErr,
                           base |-> "not_called", raised |-> FALSE,
                           appended |-> Len(msgs) - Len(messages),
                           requests |-> Len(Last(msgs).tool_calls), goes |-> n,
                           attempted |-> tools_llm,
                           afterFallback |-> Degraded(visit)]
  /\ llmCalls' = llmCalls + 1
  /\ UNCHANGED <<caller, turns, resumes, gateResumes, toolRun, emailCalls,
                 payloads, sends, lastEmail, tools_llm, rounds>>
  /\ UNCHANGED toolVars

\* call_tools_llm, tool-aware call raises: the except clause.
DecideFault ==
  /\ running /\ next = "call_tools_llm"
  /\ llmCalls < MaxModelCalls
  /\ \E e \in ErrTexts :
       /\ IF IsCapabilityMismatch(e)
          THEN \/ \* self._base_llm.invoke(messages) returns
                  LET msgs == AddMessages(messages,
                                          <<AIMessage(llmCalls + 1, NoCalls)>>)
                      n == EdgeOf(exists_action(msgs)) IN
                    /\ Advance(msgs, n)
                    /\ visit' = [n |-> llmCalls + 1, faulted |-> TRUE, err |-> e,
                                 base |-> "returned", raised |-> FALSE,
                                 appended |-> Len(msgs) - Len(messages),
                                 requests |-> Len(Last(msgs).tool_calls),
                                 goes |-> n, attempted |-> tools_llm,
                           afterFallback |-> Degraded(visit)]
               \/ \* self._base_llm.invoke(messages) raises in its turn
                  /\ Raise
                  /\ visit' = [n |-> llmCalls + 1, faulted |-> TRUE, err |-> e,
                               base |-> "raised", raised |-> TRUE,
                               appended |-> 0, requests |-> 0,
                               goes |-> "none", attempted |-> tools_llm,
                           afterFallback |-> Degraded(visit)]
          ELSE /\ Raise
               /\ visit' = [n |-> llmCalls + 1, faulted |-> TRUE, err |-> e,
                            base |-> "not_called", raised |-> TRUE,
                            appended |-> 0, requests |-> 0, goes |-> "none",
                            attempted |-> tools_llm,
                           afterFallback |-> Degraded(visit)]
       /\ tools_llm' = IF IsCapabilityMismatch(e)
                       THEN ToolsLLMAfterFallback(tools_llm)
                       ELSE tools_llm
  /\ llmCalls' = llmCalls + 1
  /\ UNCHANGED <<caller, turns, nextId, resumes, gateResumes, toolRun,
                 emailCalls, payloads, sends, lastEmail, rounds>>
  /\ UNCHANGED toolVars

\* invoke_tools, followed by the edge invoke_tools -> call_tools_llm.
InvokeTools ==
  /\ running /\ next = "invoke_tools"
  /\ LET calls == Last(messages).tool_calls
         r == RunInvokeTools(calls) IN
       IF r.raised
       THEN /\ Raise
            /\ toolRun' = [n |-> toolRun.n + 1, raised |-> TRUE,
                           calls |-> calls, invoked |-> r.invoked,
                           appended |-> 0, goes |-> "none"]
       ELSE /\ Advance(AddMessages(messages, r.results), "call_tools_llm")
            /\ toolRun' = [n |-> toolRun.n + 1, raised |-> FALSE,
                           calls |-> calls, invoked |-> r.invoked,
                           appended |-> Len(r.results),
                           goes |-> "call_tools_llm"]
  /\ rounds' = rounds + 1
  /\ UNCHANGED <<caller, turns, llmCalls, nextId, resumes, gateResumes, visit,
                 emailCalls, payloads, sends, lastEmail, tools_llm>>
  /\ UNCHANGED toolVars

\* email_sender, followed by the edge email_sender -> END.  The node returns
\* nothing, so the channel is not written.
EmailSenderOutcomes == {"llm_fault", "config_fault", "send_fault", "sent"}

\* The outcomes with which a fault leaves email_sender: the email model call
\* and the construction of the Mail payload are outside the try block.
EmailSenderRaisesAll(o) == o # "sent"

EmailSenderRaises(o) == o \in {"llm_fault", "config_fault"}

\* A text taken from the first entry of the history.
EmailInputFirst(msgs) == msgs[1].content

\* HumanMessage(content=state["messages"][-1].content)
EmailInput(msgs) == Last(msgs).content

email_sender ==
  /\ running /\ next = "email_sender"
  /\ \E o \in EmailSenderOutcomes :
       /\ emailCalls' = emailCalls + 1
       /\ lastEmail' = [n |-> lastEmail.n + 1,
                        result |-> IF o \in {"llm_fault", "config_fault"}
                                   THEN "fault_before_send" ELSE o,
                        input |-> EmailInput(messages)]
       /\ payloads' = IF o \in {"send_fault", "sent"} THEN payloads + 1
                      ELSE payloads
       /\ sends' = IF o \in {"send_fault", "sent"} THEN sends + 1 ELSE sends
       /\ IF EmailSenderRaises(o)
          THEN Raise
          ELSE /\ messages' = messages
               /\ next' = EmailSenderNext
               /\ running' = FALSE
               /\ outcome' = "finished"
               /\ session' = IF caller = "app"
                             THEN Append(session, Last(messages))
                             ELSE session
  /\ UNCHANGED <<caller, turns, llmCalls, nextId, resumes, gateResumes, visit,
                 toolRun, tools_llm, rounds>>
  /\ UNCHANGED toolVars

\* The resume signal, graph.invoke(None, config), on a thread paused before
\* email_sender: the interrupted node runs.
ResumeAtGate ==
  /\ ~running /\ next = "email_sender"
  /\ resumes < MaxResumes
  /\ running' = TRUE
  /\ caller' = "resume"
  /\ outcome' = "none"
  /\ resumes' = resumes + 1
  /\ gateResumes' = gateResumes + 1
  /\ UNCHANGED <<session, messages, next, turns, llmCalls, nextId, visit,
                 toolRun, emailCalls, payloads, sends, lastEmail, tools_llm, rounds>>
  /\ UNCHANGED toolVars

\* The same signal on a thread whose last invoke raised out of
\* call_tools_llm or invoke_tools: the failed node runs again.
ResumeAfterFault ==
  /\ ~running /\ next \in {"call_tools_llm", "invoke_tools"}
  /\ resumes < MaxResumes
  /\ running' = TRUE
  /\ caller' = "resume"
  /\ outcome' = "none"
  /\ resumes' = resumes + 1
  /\ UNCHANGED <<session, messages, next, turns, llmCalls, nextId, gateResumes,
                 visit, toolRun, emailCalls, payloads, sends, lastEmail,
                 tools_llm, rounds>>
  /\ UNCHANGED toolVars

Next ==
  \/ UserTurn
  \/ DecideToolAware
  \/ DecideFault
  \/ InvokeTools
  \/ email_sender
  \/ ResumeAtGate
  \/ ResumeAfterFault

Init == LoopInit /\ ToolInit

Spec == Init /\ [][Next]_vars

(************************* direct calls of the tools ************************)
\* A hotel search with arbitrary arguments.
HotelsFinderCall ==
  /\ \E q \in Queries, ci \in DateTexts, co \in DateTexts, today \in Todays,
        search \in SearchOutcomes :
       LET r == hotels_finder(q, ci, co, today, search) IN
         call' = [fn |-> "hotels_finder", q |-> q, check_in |-> ci,
                  check_out |-> co, today |-> today, result |-> r.result,
                  searches |-> r.searches]
  /\ UNCHANGED <<cache, created, agentLLM, steps>>
  /\ UNCHANGED loopVars

HotelNext == HotelsFinderCall

HotelSpec == Init /\ [][HotelNext]_vars

\* app.py:17-22: each run of the script calls get_llm(); the first run then
\* constructs the Agent, whose __init__ calls get_llm() again and keeps the
\* client it gets.
AppRun ==
  /\ steps < MaxSteps
  /\ \E env \in Envs :
       LET g == get_llm(cache, DefaultTemperature, env, created + 1)
           a == get_llm(g.cache, DefaultTemperature, env, created + 2) IN
         /\ call' = [fn |-> "get_llm", t |-> DefaultTemperature,
                     raised |-> g.raised, inst |-> g.inst, hit |-> g.hit,
                     before |-> cache]
         /\ cache' = IF g.raised THEN cache ELSE a.cache
         /\ created' = created + (IF g.raised THEN 0 ELSE g.made + a.made)
         /\ agentLLM' = IF g.raised \/ agentLLM # NoInst THEN agentLLM
                        ELSE a.inst
  /\ steps' = steps + 1
  /\ UNCHANGED loopVars

\* get_llm called with an arbitrary temperature.
GetLLMCall ==
  /\ steps < MaxSteps
  /\ \E t \in Temperatures, env \in Envs :
       LET g == get_llm(cache, t, env, created + 1) IN
         /\ call' = [fn |-> "get_llm", t |-> t, raised |-> g.raised,
                     inst |-> g.inst, hit |-> g.hit, before |-> cache]
         /\ cache' = g.cache
         /\ created' = created + g.made
  /\ steps' = steps + 1
  /\ UNCHANGED agentLLM
  /\ UNCHANGED loopVars

\* agent.py:132: email_sender obtains its model with get_llm(temperature=0.1).
EmailGetLLM ==
  /\ steps < MaxSteps
  /\ agentLLM # NoInst
  /\ \E env \in Envs :
       LET g == get_llm(cache, EmailTemperature, env, created + 1) IN
         /\ call' = [fn |-> "email_llm", t |-> EmailTemperature,
                     raised |-> g.raised, inst |-> g.inst, hit |-> g.hit,
                     before |-> cache]
         /\ cache' = g.cache
         /\ created' = created + g.made
  /\ steps' = steps + 1
  /\ UNCHANGED agentLLM
  /\ UNCHANGED loopVars

\* An itinerary request with an arbitrary day count.
BuildItineraryCall ==
  /\ steps < MaxSteps
  /\ \E days \in DayCounts, env \in Envs, inv \in InvokeOutcomes :
       LET r == build_itinerary(days, cache, env, created + 1, inv) IN
         /\ call' = [fn |-> "build_itinerary", days |-> days,
                     raised |-> r.raised, result |-> r.result,
                     obtained |-> r.obtained, invokes |-> r.invokes,
                     before |-> cache]
         /\ cache' = r.cache
         /\ created' = created + r.made
  /\ steps' = steps + 1
  /\ UNCHANGED agentLLM
  /\ UNCHANGED loopVars

LLMNext ==
  \/ AppRun
  \/ GetLLMCall
  \/ EmailGetLLM
  \/ BuildItineraryCall

LLMSpec == Init /\ [][LLMNext]_vars


(*************************** helpers of the claims **************************)
IsPrefix(a, b) == Len(a) <= Len(b) /\ SubSeq(b, 1, Len(a)) = a

AtGate == ~running /\ next = "email_sender"

\* Positions <<q, i>> of the requests in a history.
RequestPositions(msgs) ==
  {pos \in (1..Len(msgs)) \X (1..MaxCalls + 1) :
     /\ msgs[pos[1]].type = "ai"
     /\ pos[2] <= Len(msgs[pos[1]].tool_calls)}

\* Positions of the results in a history that answer request c.
ResultsFor(msgs, c) ==
  {j \in 1..Len(msgs) :
     /\ msgs[j].type = "tool"
     /\ msgs[j].tool_call_id = c.id
     /\ msgs[j].name = c.name}

AllRequestsMatched(msgs) ==
  \A pos \in RequestPositions(msgs) :
    Cardinality(ResultsFor(msgs, msgs[pos[1]].tool_calls[pos[2]])) = 1

(********************************** claims *********************************)

\* C1 (gate blocking): in every reachable state, whatever tool rounds and
\* user turns came before, the email model call, the payload construction
\* and the send have each run at most as often as a resume signal was
\* received while the thread was paused before email_sender; in particular
\* none of them has run when no such signal was received.
GateBlocking ==
  /\ emailCalls <= gateResumes
  /\ payloads <= gateResumes
  /\ sends <= gateResumes
  /\ (running /\ next = "email_sender") => caller = "resume"

\* C1 witness: a delivery was sent after a tool round.
GateBlockingWitness ==
  /\ sends > 0
  /\ toolRun.n > 0 /\ toolRun.appended > 0
  /\ gateResumes > 0

\* C2 (tool fault containment), as claimed: an invoke_tools visit never
\* raises; every request naming a registered tool has a ToolResult in the
\* history, and the loop goes back to call_tools_llm.
ToolFaultContainment ==
  toolRun.n > 0 =>
    /\ ~toolRun.raised
    /\ toolRun.goes = "call_tools_llm"
    /\ \A i \in 1..Len(toolRun.calls) :
         toolRun.calls[i].name \in SelfTools =>
           ResultsFor(messages, toolRun.calls[i]) # {}

\* C3 (request/result matching), as claimed: every ToolResult has an earlier
\* request with its call identifier, and whenever call_tools_llm is about to
\* be called every request in messages is matched by exactly one ToolResult
\* with its call identifier and tool name.
RequestResultMatching ==
  /\ \A j \in 1..Len(messages) :
       messages[j].type = "tool" =>
         \E q \in 1..(j - 1) :
           \E i \in 1..Len(messages[q].tool_calls) :
             messages[q].tool_calls[i].id = messages[j].tool_call_id
  /\ (running /\ next = "call_tools_llm") => AllRequestsMatched(messages)

\* C4 (append-only history): across every transition (user turn, model
\* decision, tool execution, pause at the gate, resume and finalization) the
\* thread's messages before the step are a prefix of the messages after it.
AppendOnlyHistory == [][IsPrefix(messages, messages')]_vars

\* C4 witness: a second user turn was submitted on a thread that went
\* through a tool round, the gate and finalization.
AppendOnlyWitness ==
  /\ turns = 2
  /\ toolRun.appended > 0
  /\ sends > 0
  /\ Len(messages) > Len(session)


\* C5 (unknown-tool resilience), as claimed: for every request of an
\* invoke_tools visit whose name is not in the registry, a ToolResult with
\* its call identifier and the invalid-tool-name payload is in the history,
\* no capability was invoked for it, the visit raised nothing and the loop
\* went on to call_tools_llm.
UnknownToolResilience ==
  toolRun.n > 0 =>
    \A i \in 1..Len(toolRun.calls) :
      toolRun.calls[i].name \notin SelfTools =>
        /\ \E j \in 1..Len(messages) :
             /\ messages[j].type = "tool"
             /\ messages[j].tool_call_id = toolRun.calls[i].id
             /\ messages[j].content = InvalidToolName
        /\ \A k \in 1..Len(toolRun.invoked) :
             toolRun.invoked[k] # toolRun.calls[i].id
        /\ ~toolRun.raised
        /\ toolRun.goes = "call_tools_llm"

\* C6 (ordering): every ToolResult in the history belongs to a block that
\* directly follows a ModelUtterance and answers all of its requests, the
\* i-th entry of the block carrying the i-th request's call identifier and
\* tool name; an invoke_tools visit appends the whole block in one step (or
\* nothing, when it raises), before call_tools_llm runs again.
OrderingInvariant ==
  /\ \A p \in 1..Len(messages) :
       messages[p].type = "tool" =>
         \E q \in 1..(p - 1) :
           LET calls == messages[q].tool_calls IN
             /\ messages[q].type = "ai"
             /\ p <= q + Len(calls)
             /\ q + Len(calls) <= Len(messages)
             /\ \A i \in 1..Len(calls) :
                  /\ messages[q + i].type = "tool"
                  /\ messages[q + i].tool_call_id = calls[i].id
                  /\ messages[q + i].name = calls[i].name
  /\ toolRun.appended = IF toolRun.raised THEN 0 ELSE Len(toolRun.calls)

\* C6 witness: a round of two requests for different tools was answered.
OrderingWitness ==
  /\ ~toolRun.raised
  /\ toolRun.appended = 2
  /\ toolRun.calls[1].name # toolRun.calls[2].name
  /\ running /\ next = "call_tools_llm"

\* C7 (termination condition of the tool sub-loop), as claimed: every
\* call_tools_llm visit appends exactly one ModelUtterance; with zero
\* requests the loop pauses before email_sender without an invoke_tools
\* visit, with at least one it goes to invoke_tools.
DecisionAppendsOne ==
  [][ (running /\ next = "call_tools_llm") =>
        /\ IsPrefix(messages, messages')
        /\ Len(messages') = Len(messages) + 1
        /\ Last(messages').type = "ai"
        /\ IF Len(Last(messages').tool_calls) = 0
           THEN next' = "email_sender" /\ ~running' /\ toolRun' = toolRun
           ELSE next' = "invoke_tools" /\ running' ]_vars

\* C7, amended: every call_tools_llm visit that does not end in a fatal
\* fault appends exactly one ModelUtterance; with zero requests the loop
\* pauses before email_sender without an invoke_tools visit, with at least
\* one it goes to invoke_tools.  A visit that ends in a fatal fault appends
\* nothing.
DecisionRouting ==
  [][ (running /\ next = "call_tools_llm") =>
        \/ /\ outcome' = "raised"
           /\ messages' = messages
        \/ /\ outcome' # "raised"
           /\ IsPrefix(messages, messages')
           /\ Len(messages') = Len(messages) + 1
           /\ Last(messages').type = "ai"
           /\ IF Len(Last(messages').tool_calls) = 0
              THEN next' = "email_sender" /\ ~running' /\ toolRun' = toolRun
              ELSE next' = "invoke_tools" /\ running' ]_vars

\* C7 witness: the model returned zero requests on round 1 and the thread is
\* paused at the gate after one call_tools_llm visit and no invoke_tools visit.
DecisionRoutingWitness ==
  /\ llmCalls = 1
  /\ AtGate
  /\ toolRun.n = 0
  /\ ~visit.faulted /\ visit.requests = 0

\* The text of a fault that call_tools_llm treats as a capability mismatch.
MismatchText(e) == e.dnst \/ (e.tools /\ e.support)

\* A call_tools_llm step whose tool-aware call faulted.
FaultedVisitStep == running /\ next = "call_tools_llm" /\ visit'.n # visit.n /\ visit'.faulted

\* C8 (fallback path), as claimed: when the tool-aware call fails with a
\* capability-mismatch fault, call_tools_llm does not raise; it appends the
\* base variant's utterance, which has zero requests, and the loop pauses
\* before email_sender.
FallbackNeverRaises ==
  [][ (FaultedVisitStep /\ MismatchText(visit'.err)) =>
        /\ outcome' # "raised"
        /\ visit'.base = "returned"
        /\ Len(messages') = Len(messages) + 1
        /\ Len(Last(messages').tool_calls) = 0
        /\ next' = "email_sender" /\ ~running' ]_vars

\* C8, amended: when the tool-aware call fails with a capability-mismatch
\* fault, call_tools_llm does not re-raise that fault but calls the base
\* variant; if the base call returns, its utterance, which has zero
\* requests, is appended and the loop pauses before email_sender; only a
\* fault of the base call itself leaves call_tools_llm.
FallbackPath ==
  [][ (FaultedVisitStep /\ MismatchText(visit'.err)) =>
        \/ /\ visit'.base = "returned"
           /\ outcome' # "raised"
           /\ IsPrefix(messages, messages')
           /\ Len(messages') = Len(messages) + 1
           /\ Last(messages').type = "ai"
           /\ Len(Last(messages').tool_calls) = 0
           /\ next' = "email_sender" /\ ~running'
        \/ /\ visit'.base = "raised"
           /\ outcome' = "raised"
           /\ messages' = messages ]_vars

\* C8 witness: a visit degraded to the base variant on a text that holds
\* "tools" and "support" without the exact phrase, and the thread is paused
\* at the gate.
FallbackWitness ==
  /\ visit.faulted /\ visit.err.tools /\ visit.err.support /\ ~visit.err.dnst
  /\ visit.base = "returned"
  /\ visit.n = llmCalls
  /\ AtGate

\* C9 (fatal classification): when the tool-aware call fails with a fault
\* that is not a capability mismatch, call_tools_llm re-raises it: the base
\* variant is not called, nothing is appended to messages or to the session
\* list, the invoke ends raised with the checkpoint still at call_tools_llm,
\* so neither the gate nor invoke_tools is reached from that visit.
FatalClassification ==
  [][ (FaultedVisitStep /\ ~MismatchText(visit'.err)) =>
        /\ visit'.base = "not_called"
        /\ messages' = messages
        /\ session' = session
        /\ outcome' = "raised"
        /\ ~running'
        /\ next' = "call_tools_llm"
        /\ toolRun' = toolRun
        /\ emailCalls' = emailCalls ]_vars

\* C9 witness: a visit raised on a fault whose text mentions "tools" but not
\* "support".
FatalClassificationWitness ==
  /\ visit.faulted /\ visit.err.tools /\ ~visit.err.support
  /\ visit.raised /\ visit.n = llmCalls
  /\ outcome = "raised" /\ ~running /\ next = "call_tools_llm"

\* C10 (no incomplete state after a fatal fault), as claimed: whenever an
\* invoke has ended by a fault leaving the loop, every request of every
\* ModelUtterance in the thread's committed messages has its ToolResult.
NoIncompleteStateAfterFault ==
  (~running /\ outcome = "raised") => AllRequestsMatched(messages)


\* An email_sender step.
FinalizationStep == running /\ next = "email_sender"

\* A resume signal received by a thread paused before email_sender.
ResumeSignalAtGate == AtGate /\ resumes' # resumes

\* C11 (finalization on resume), as claimed: a resume signal at the gate
\* starts email_sender, and every email_sender run makes one email model
\* call and one send, ends the round at END and leaves messages unchanged.
FinalizationOnResume ==
  [][ /\ ResumeSignalAtGate => (running' /\ next' = "email_sender")
      /\ FinalizationStep =>
           /\ emailCalls' = emailCalls + 1
           /\ sends' = sends + 1
           /\ next' = "END" /\ ~running' /\ outcome' = "finished"
           /\ messages' = messages ]_vars

\* C11, amended: a resume signal at the gate starts email_sender, which runs
\* once and leaves messages unchanged; unless the email model call or the
\* construction of the payload faults, one payload is built, send is invoked
\* exactly once and the round ends at END; if one of them faults, the fault
\* leaves the resume, no send is made and the thread stays paused before
\* email_sender.
FinalizationOnResumeUnlessFault ==
  [][ /\ ResumeSignalAtGate =>
           /\ running' /\ next' = "email_sender"
           /\ UNCHANGED <<messages, emailCalls, payloads, sends>>
      /\ FinalizationStep =>
           /\ emailCalls' = emailCalls + 1
           /\ messages' = messages
           /\ \/ /\ lastEmail'.result \in {"sent", "send_fault"}
                 /\ payloads' = payloads + 1
                 /\ sends' = sends + 1
                 /\ next' = "END" /\ ~running' /\ outcome' = "finished"
              \/ /\ lastEmail'.result = "fault_before_send"
                 /\ UNCHANGED <<payloads, sends>>
                 /\ next' = "email_sender" /\ ~running'
                 /\ outcome' = "raised" ]_vars

\* C11 witness: one resume at the gate, one email model call, one send, and
\* the thread is at END.
FinalizationWitness ==
  /\ gateResumes = 1 /\ emailCalls = 1 /\ sends = 1
  /\ lastEmail.result = "sent"
  /\ next = "END" /\ ~running

\* C12 (delivery failure is non-fatal): an email_sender run whose send
\* faults still completes: the invoke ends finished with the thread at END
\* (where no email_sender run is pending), messages and the session list are
\* unchanged, and the send was attempted once in the run.
DeliveryFailureNonFatal ==
  [][ (FinalizationStep /\ lastEmail'.result = "send_fault") =>
        /\ outcome' = "finished"
        /\ next' = "END" /\ ~running'
        /\ messages' = messages
        /\ session' = session
        /\ sends' = sends + 1
        /\ emailCalls' = emailCalls + 1 ]_vars

\* C12 witness: the send faulted and the thread is at END.
DeliveryFailureWitness ==
  /\ lastEmail.result = "send_fault"
  /\ sends = 1
  /\ next = "END" /\ ~running /\ outcome = "finished"

(***************************** C13: hotel dates ****************************)
HotelErrors ==
  {"error: missing required parameters",
   "error: dates must be in YYYY-MM-DD format",
   "error: check_in_date cannot be in the past",
   "error: check_out_date must be after check_in_date"}

\* The last call was a hotel search whose two dates are well-formed and
\* whose check-out date is on or before its check-in date.
CheckOutNotAfterCheckIn ==
  /\ call.fn = "hotels_finder"
  /\ Strptime(call.check_in).ok
  /\ Strptime(call.check_out).ok
  /\ ~DateBefore(Strptime(call.check_in).date, Strptime(call.check_out).date)

\* C13 as stated: every hotel search whose check-out date is on or before its
\* check-in date (both well-formed, whatever the current date) returns the
\* "check_out_date must be after check_in_date" error and makes no external
\* search call.
HotelChronologyWhateverToday ==
  CheckOutNotAfterCheckIn =>
    /\ call.result = "error: check_out_date must be after check_in_date"
    /\ call.searches = 0

\* C13 amended: every hotel search whose check-out date is on or before its
\* check-in date (both well-formed) returns an error record and makes no
\* external search call; the error is the "check_out_date must be after
\* check_in_date" one exactly when the query is non-empty and the check-in
\* date is not before the current date (an empty query gives the missing
\* parameters error, a past check-in date the "cannot be in the past" error).
HotelChronologyValidation ==
  CheckOutNotAfterCheckIn =>
    /\ call.searches = 0
    /\ call.result \in HotelErrors
    /\ (call.result = "error: check_out_date must be after check_in_date"
          <=> /\ call.q # ""
              /\ ~DateBefore(Strptime(call.check_in).date, call.today))
    /\ (call.q = "" => call.result = "error: missing required parameters")
    /\ (call.q # "" /\ DateBefore(Strptime(call.check_in).date, call.today)
          => call.result = "error: check_in_date cannot be in the past")

\* A search with equal, well-formed, non-past dates was refused with the
\* chronology error.
HotelChronologyWitness ==
  /\ CheckOutNotAfterCheckIn
  /\ Strptime(call.check_in).date = Strptime(call.check_out).date
  /\ call.result = "error: check_out_date must be after check_in_date"
  /\ call.searches = 0

(*************************** C14: itinerary days ***************************)
\* C14: every build_itinerary request with days < 1 (in particular days = 0)
\* returns the error string and makes no model call: it neither obtains the
\* generation model (so the session cache is untouched and no client is
\* constructed) nor invokes it.
ItineraryDaysValidation ==
  (call.fn = "build_itinerary" /\ call.days < 1) =>
    /\ ~call.raised
    /\ call.result = "Error: days must be >= 1."
    /\ call.obtained = 0
    /\ call.invokes = 0
    /\ cache = call.before

\* build_itinerary was called with days = 0 and answered with the error
\* string.
ItineraryDaysWitness ==
  /\ call.fn = "build_itinerary"
  /\ call.days = 0
  /\ call.result = "Error: days must be >= 1."
  /\ call.invokes = 0

(***************************** C20: model cache ****************************)
\* The stored client and the stored temperature correspond.
CacheCoherent ==
  IF cache.has THEN cache.inst # NoInst /\ cache.inst.temperature = cache.temp
  ELSE cache = EmptyCache

\* What a completed get_llm(t) call, recorded in `call`, has to satisfy.
GetLLMContract ==
  call.fn \in {"get_llm", "email_llm"} =>
    IF call.raised THEN cache = call.before
    ELSE /\ call.inst.temperature = call.t
         /\ call.hit <=> (call.before.has /\ call.before.temp = call.t)
         /\ call.hit => call.inst = call.before.inst /\ cache = call.before
         /\ ~call.hit => call.inst.id = created /\ cache.inst = call.inst
         /\ cache.has /\ cache.temp = call.t

\* The finalization step's client has temperature 0.1 and is not the client
\* the Agent bound at construction, which has the default temperature.
EmailLLMContract ==
  /\ agentLLM # NoInst => agentLLM.temperature = DefaultTemperature
  /\ (call.fn = "email_llm" /\ ~call.raised) =>
       /\ call.inst.temperature = EmailTemperature
       /\ call.inst # agentLLM

ModelCacheStep ==
  /\ CacheCoherent'
  /\ GetLLMContract'
  /\ EmailLLMContract'
  /\ agentLLM # NoInst => agentLLM' = agentLLM

\* C20: after any sequence of get_llm calls with arbitrary temperatures,
\* get_llm(t) returns a client configured with temperature t; a cached client
\* is reused only when the stored temperature equals t; the stored client and
\* the stored temperature always correspond; the finalization step gets a
\* temperature-0.1 client, and the client bound at Agent construction is
\* never replaced.
ModelCacheKeyedByTemperature == [][ModelCacheStep]_vars

\* The finalization step asked for its client while the cache held the
\* default-temperature client, and got a fresh temperature-0.1 client; the
\* Agent still holds the client it was constructed with.
ModelCacheWitness ==
  /\ call.fn = "email_llm"
  /\ ~call.raised
  /\ ~call.hit
  /\ call.before.has
  /\ call.before.temp = DefaultTemperature
  /\ call.inst.temperature = EmailTemperature
  /\ agentLLM = call.before.inst

(************************* C15: fallback per call **************************)
\* C15: the fallback is per call: self._tools_llm stays the tool-aware
\* variant whatever earlier decide calls did, every decide call attempts the
\* tool-aware variant first, and the base variant is called only inside a
\* visit whose own tool-aware call faulted with a capability mismatch.
FallbackPerCall ==
  /\ tools_llm = BoundToolsLLM
  /\ visit.n > 0 => visit.attempted = BoundToolsLLM
  /\ visit.base # "not_called" =>
       visit.faulted /\ IsCapabilityMismatch(visit.err)

\* The decide call after a degraded one attempted the tool-aware variant and
\* got tool requests from it.
FallbackPerCallWitness ==
  /\ visit.afterFallback
  /\ visit.attempted = BoundToolsLLM
  /\ ~visit.faulted
  /\ visit.requests > 0

(************************* C16: the tool sub-loop **************************)
\* Position of the last user utterance in the thread's messages.
LastHuman ==
  LET H == {i \in 1..Len(messages) : messages[i].type = "human"} IN
    IF H = {} THEN 0 ELSE CHOOSE i \in H : \A j \in H : j <= i

\* Model utterances carrying tool requests since the last user utterance.
RequestRounds ==
  Cardinality({i \in (LastHuman + 1)..Len(messages) :
                 /\ messages[i].type = "ai"
                 /\ Len(messages[i].tool_calls) > 0})

AtGateOrFinalizing == next = "email_sender"

LastIsFinalAnswer ==
  /\ Len(messages) > 0
  /\ Last(messages).type = "ai"
  /\ Len(Last(messages).tool_calls) = 0

FinalizationInputStep ==
  /\ AtGateOrFinalizing => LastIsFinalAnswer
  /\ AtGateOrFinalizing' => LastIsFinalAnswer'
  /\ FinalizationStep =>
       /\ lastEmail'.n = lastEmail.n + 1
       /\ lastEmail'.input = Last(messages).content
       /\ messages' = messages

\* C17: whenever the thread is paused at the gate or running finalization,
\* the last entry of messages is a model utterance with zero tool requests,
\* and the text the finalization step hands to its model call is that
\* entry's content.
FinalizationInput == [][FinalizationInputStep]_vars

\* A finalization step has run on an answer whose content differs from that
\* of the thread's first entry.
FinalizationInputWitness ==
  /\ lastEmail.n > 0
  /\ LastIsFinalAnswer
  /\ lastEmail.input = Last(messages).content
  /\ lastEmail.input # messages[1].content

(********************* C18: duplication across turns ***********************)
\* Positions of an entry in the thread's messages.
PositionsOf(m) == {i \in 1..Len(messages) : messages[i] = m}

\* C18: after any sequence of user turns through the chat handler, the
\* thread's messages contain each user utterance and each final model answer
\* exactly once, in the order they occurred: every entry of the session list
\* occurs at exactly one position of messages, and a later session entry
\* occurs after an earlier one.
NoDuplicationAcrossTurns ==
  /\ \A k \in 1..Len(session) : Cardinality(PositionsOf(session[k])) = 1
  /\ \A k, l \in 1..Len(session) :
       k < l => \A i \in PositionsOf(session[k]), j \in PositionsOf(session[l]) :
                  i < j

(*************************** C19: abandoned gate ***************************)
\* A new user message is submitted to a thread paused at the gate.
UserTurnAtGate == AtGate /\ turns' = turns + 1

AbandonedGateStep ==
  /\ UserTurnAtGate =>
       /\ next' = "call_tools_llm"
       /\ running'
       /\ Last(messages') = HumanMessage(turns')
       /\ IsPrefix(messages, messages')
       /\ emailCalls' = emailCalls
       /\ payloads' = payloads
       /\ sends' = sends
       /\ lastEmail' = lastEmail
       /\ gateResumes' = gateResumes
  /\ caller' = "app" => resumes' = resumes
  /\ FinalizationStep => caller = "resume"
  /\ next' = "END" => gateResumes' > 0

\* C19: a new user message submitted to a thread paused at the gate makes the
\* loop re-enter call_tools_llm with the new message appended, and the
\* pending finalization is skipped: no email model call and no delivery for
\* the earlier answer.  The chat handler never issues a resume signal, so the
\* finalization step runs, and the round ends Finalized, only under a resume
\* issued outside it.
AbandonedGate == [][AbandonedGateStep]_vars

\* A second user turn was started from the gate and no finalization has run.
AbandonedGateWitness ==
  /\ turns = 2
  /\ running
  /\ caller = "app"
  /\ next = "call_tools_llm"
  /\ Last(messages) = HumanMessage(2)
  /\ Len(session) = 3
  /\ emailCalls = 0
  /\ gateResumes = 0

============================================================================
